---- MODULE Spec2Model ----
(***************************************************************************)
(* Daisyworld simulation engine (src/src/planet-renderer.js, classes       *)
(* Daisy, Planet and DaisyworldModel) as a state machine.                  *)
(*                                                                         *)
(* JavaScript numbers are modelled in fixed point:                         *)
(*   coverage, albedo, growth rate, death rate : thousandths (1000 = 1.0)  *)
(*   temperature                               : hundredths of a kelvin    *)
(*   solar luminosity                          : hundredths (100 = 1.0)    *)
(*   simulation speed                          : tenths (10 = 1.0)         *)
(* Every division rounds down (\div), where the code keeps the fraction.   *)
(***************************************************************************)
EXTENDS Integers, Sequences, FiniteSets, TLC

VARIABLES
    planet,             \* Planet: bareSoilAlbedo, temperature, solarLuminosity, albedo
    whiteDaisy,         \* Daisy: type, albedo, coverage, localTemp
    blackDaisy,         \* Daisy: type, albedo, coverage, localTemp
    deathRate,          \* DaisyworldModel.deathRate
    optimalTemp,        \* DaisyworldModel.optimalTemp
    simulationSpeed,    \* DaisyworldModel.simulationSpeed
    running,            \* DaisyworldModel.running
    time,               \* DaisyworldModel.time
    timeStepCallbacks,  \* DaisyworldModel.timeStepCallbacks, in subscription order
    animationFrame,     \* DaisyworldModel.animationFrame (0: undefined or null)
    timeouts,           \* number of setTimeout callbacks of simulationLoop not yet run
    frames,             \* ids of the requestAnimationFrame callbacks not yet run
    handles,            \* the unsubscribe functions onTimeStep() returned, in the order
                        \* of the calls: handles[h] is the callback function h captured
    pc,                 \* "idle", or "loop" while simulationLoop is executing
    stepsLeft,          \* simulationLoop: whole steps of the for loop still to run
    fractionalPart,     \* simulationLoop: const fractionalPart of the running tick
    lastOp,             \* history: the operation that produced this state
    lastConfig,         \* history: params of the last constructor or reset call
    notified,           \* history: <<callback, payload.time>> per call made by the last step()
    paused,             \* history: pause() returned and start() was not called since
    ranPaused,          \* history: simulationLoop ran a step() while paused held
    wasReset,           \* history: reset() returned and start() was not called since
    ranReset,           \* history: simulationLoop ran a step() while wasReset held
    tickSteps,          \* history: the step() calls of the simulationLoop run that is
                        \* executing or has just ended
    registrations,      \* history: the onTimeStep() calls whose own unsubscribe function
                        \* was never called, in the order of the calls
    temperatures        \* history: the planet temperature recorded at the end of each
                        \* stage of a luminosity ramp

vars == <<planet, whiteDaisy, blackDaisy, deathRate, optimalTemp, simulationSpeed,
          running, time, timeStepCallbacks, animationFrame, timeouts, frames,
          handles, pc, stepsLeft, fractionalPart, lastOp, lastConfig, notified,
          paused, ranPaused, wasReset, ranReset, tickSteps, registrations,
          temperatures>>

----------------------------------------------------------------------------
(* Bounds of the model *)

MaxTime == 2            \* the scheduler and step() stop at this time counter
MaxSubs == 2            \* longest subscriber list
MaxLoops == 2           \* most scheduler loops (pending timeouts and frames) at once
MaxHandles == 2         \* most onTimeStep() calls made on one engine

----------------------------------------------------------------------------
(* Arithmetic *)

Min(a, b) == IF a < b THEN a ELSE b
Max(a, b) == IF a > b THEN a ELSE b
Abs(a) == IF a < 0 THEN 0 - a ELSE a

RECURSIVE SqrtSearch(_, _, _)
SqrtSearch(n, lo, hi) ==
    IF lo >= hi THEN lo
    ELSE LET mid == (lo + hi + 1) \div 2
         IN  IF mid * mid <= n THEN SqrtSearch(n, mid, hi)
                               ELSE SqrtSearch(n, lo, mid - 1)

\* Math.sqrt rounded down, for 0 <= n < 2^31
ISqrt(n) == SqrtSearch(n, 0, 46340)

\* r^5 for r in thousandths, in thousandths
Pow5(r) == (((((((r * r) \div 1000) * r) \div 1000) * r) \div 1000) * r) \div 1000

RECURSIVE Root5Search(_, _, _)
Root5Search(x, lo, hi) ==
    IF lo >= hi THEN lo
    ELSE LET mid == (lo + hi + 1) \div 2
         IN  IF Pow5(mid) <= x THEN Root5Search(x, mid, hi)
                               ELSE Root5Search(x, lo, mid - 1)

\* Math.pow(x, 1.8) for 0 <= x <= 1, thousandths in and out: x^2 / x^(1/5)
Pow18(x) ==
    IF x <= 0 THEN 0
    ELSE LET r == Max(1, Root5Search(x, 0, 1000)) IN Min(x, (x * x) \div r)

----------------------------------------------------------------------------
(* class Daisy *)

Daisy(type, albedo, coverage) ==
    [type |-> type, albedo |-> albedo, coverage |-> coverage, localTemp |-> 0]

\* Daisy.setCoverage: Math.max(0, Math.min(1, coverage))
setCoverage(daisy, coverage) ==
    [daisy EXCEPT !.coverage = Max(0, Min(1000, coverage))]

setLocalTemp(daisy, temp) == [daisy EXCEPT !.localTemp = temp]

----------------------------------------------------------------------------
(* class Planet *)

Planet(bareSoilAlbedo, initialTemp) ==
    [bareSoilAlbedo |-> bareSoilAlbedo, temperature |-> initialTemp,
     solarLuminosity |-> 100, albedo |-> bareSoilAlbedo]

\* Planet.setSolarLuminosity: Math.max(0, luminosity)
PlanetSetSolarLuminosity(p, luminosity) ==
    [p EXCEPT !.solarLuminosity = Max(0, luminosity)]

\* Planet.setAlbedo: Math.max(0, Math.min(1, albedo))
setAlbedo(p, albedo) == [p EXCEPT !.albedo = Max(0, Min(1000, albedo))]

setTemperature(p, temp) == [p EXCEPT !.temperature = temp]

\* 3000 / (4 * 5.67e-8): effectiveSolarConstant / 4 / stefanBoltzmann per unit
\* of solarLuminosity * (1 - albedo), scaled by 1e-5 for the two fixed-point factors
FluxOverSigma == (3000 * 100000) \div (4 * 567)

\* Math.pow(absorbedRadiation / stefanBoltzmann, 0.25) in hundredths of a kelvin:
\* the fourth root as the square root of the square root
RadiativeTemperature(p) ==
    LET \* above 200000 the root exceeds 350 K, which calculateTemperature clamps
        x == Min(200000, p.solarLuminosity * (1000 - p.albedo))
        s == ISqrt(x * 10000)                    \* 100 * sqrt(x)
        k == ISqrt(FluxOverSigma * 10000)        \* 100 * sqrt(FluxOverSigma)
    IN  ISqrt(k * s)

\* Planet.calculateTemperature
calculateTemperature(p) ==
    LET temperatureK == RadiativeTemperature(p)
    IN  IF temperatureK < 25000 \/ temperatureK > 35000
        THEN Max(25000, Min(35000, temperatureK))
        ELSE IF p.temperature # 0 /\ Abs(temperatureK - p.temperature) > 2000
        THEN LET direction == IF temperatureK > p.temperature THEN 1 ELSE -1
             IN  p.temperature + direction * 1500
        ELSE temperatureK

\* Planet.calculateLocalTemperature: temperature + q * (albedo - surfaceAlbedo),
\* q = 20 K per unit of albedo = 2 hundredths of a kelvin per thousandth
calculateLocalTemperature(p, surfaceAlbedo) ==
    p.temperature + 2 * (p.albedo - surfaceAlbedo)

----------------------------------------------------------------------------
(* class DaisyworldModel: constructor and model calculations *)

\* a field of params: <<>> when the caller omits it, <<v>> when it is given
Param(field, default) == IF field = <<>> THEN default ELSE field[1]

maxGrowthRate == 1000
minGrowthTemp == 2000
maxGrowthTemp == 3000
temperatureRegulationFactor == 1000

getBareSoilCoverage(m) == 1000 - m.whiteDaisy.coverage - m.blackDaisy.coverage

\* the blend with the two daisy albedos exchanged
calculatePlanetAlbedoSwapped(m) ==
    LET whiteAlbedo == m.blackDaisy.albedo * m.whiteDaisy.coverage
        blackAlbedo == m.whiteDaisy.albedo * m.blackDaisy.coverage
        soilAlbedo == m.planet.bareSoilAlbedo * getBareSoilCoverage(m)
    IN  (whiteAlbedo + blackAlbedo + soilAlbedo) \div 1000

calculatePlanetAlbedo(m) ==
    LET whiteAlbedo == m.whiteDaisy.albedo * m.whiteDaisy.coverage
        blackAlbedo == m.blackDaisy.albedo * m.blackDaisy.coverage
        soilAlbedo == m.planet.bareSoilAlbedo * getBareSoilCoverage(m)
    IN  (whiteAlbedo + blackAlbedo + soilAlbedo) \div 1000

updatePlanetAlbedo(m) ==
    [m EXCEPT !.planet = setAlbedo(m.planet, calculatePlanetAlbedo(m))]

updatePlanetTemperature(m) ==
    [m EXCEPT !.planet = setTemperature(m.planet, calculateTemperature(m.planet))]

updateLocalTemperatures(m) ==
    LET planetTemp == m.planet.temperature
        maxDiff == 1500
        whiteRaw == calculateLocalTemperature(m.planet, m.whiteDaisy.albedo)
        blackRaw == calculateLocalTemperature(m.planet, m.blackDaisy.albedo)
        whiteTempDiff ==
            Min(maxDiff, (temperatureRegulationFactor * (planetTemp - whiteRaw)) \div 1000)
        blackTempDiff ==
            Min(maxDiff, (temperatureRegulationFactor * (blackRaw - planetTemp)) \div 1000)
        whiteLocalTemp == Max(25000, Min(35000, planetTemp - whiteTempDiff))
        blackLocalTemp == Max(25000, Min(35000, planetTemp + blackTempDiff))
    IN  [m EXCEPT !.whiteDaisy = setLocalTemp(m.whiteDaisy, whiteLocalTemp),
                  !.blackDaisy = setLocalTemp(m.blackDaisy, blackLocalTemp)]

\* the constructor with the radiative temperature in place of the forced one
ConstructorComputingTemperature(params) ==
    LET initialTemp == Param(params.initialTemp, 29500)
        created ==
            [planet |-> PlanetSetSolarLuminosity(
                            Planet(Param(params.bareSoilAlbedo, 500), initialTemp),
                            Param(params.solarLuminosity, 100)),
             whiteDaisy |-> Daisy("white", Param(params.whiteDaisyAlbedo, 750),
                                  Param(params.whiteDaisyInit, 300)),
             blackDaisy |-> Daisy("black", Param(params.blackDaisyAlbedo, 250),
                                  Param(params.blackDaisyInit, 300)),
             deathRate |-> Param(params.deathRate, 200),
             optimalTemp |-> Param(params.optimalTemp, 29500),
             simulationSpeed |-> Min(5, Param(params.simulationSpeed, 10)),
             running |-> FALSE,
             time |-> 0,
             timeStepCallbacks |-> <<>>,
             animationFrame |-> 0]
    IN  updateLocalTemperatures(updatePlanetTemperature(updatePlanetAlbedo(created)))

\* new DaisyworldModel(params)
Constructor(params) ==
    LET initialTemp == Param(params.initialTemp, 29500)
        created ==
            [planet |-> PlanetSetSolarLuminosity(
                            Planet(Param(params.bareSoilAlbedo, 500), initialTemp),
                            Param(params.solarLuminosity, 100)),
             whiteDaisy |-> Daisy("white", Param(params.whiteDaisyAlbedo, 750),
                                  Param(params.whiteDaisyInit, 300)),
             blackDaisy |-> Daisy("black", Param(params.blackDaisyAlbedo, 250),
                                  Param(params.blackDaisyInit, 300)),
             deathRate |-> Param(params.deathRate, 200),
             optimalTemp |-> Param(params.optimalTemp, 29500),
             simulationSpeed |-> Min(5, Param(params.simulationSpeed, 10)),
             running |-> FALSE,
             time |-> 0,
             timeStepCallbacks |-> <<>>,
             animationFrame |-> 0]
        blended == updatePlanetAlbedo(created)
        forced == [blended EXCEPT !.planet = setTemperature(blended.planet, initialTemp)]
    IN  updateLocalTemperatures(forced)

\* DaisyworldModel.calculateDaisyGrowthRate
calculateDaisyGrowthRate(m, temperature) ==
    LET diff == Abs(temperature - m.optimalTemp)
        range == Max(minGrowthTemp, maxGrowthTemp)
        normalizedDiff == (diff * 1000) \div range
    IN  IF temperature < m.optimalTemp - minGrowthTemp
           \/ temperature > m.optimalTemp + maxGrowthTemp
        THEN 0
        ELSE Max(0, (maxGrowthRate * (1000 - Pow18(normalizedDiff))) \div 1000)

\* the temperature preference modifier of updateDaisyPopulation
PreferenceModifier(m, daisy, growthRate) ==
    LET planetTemp == m.planet.temperature
    IN  IF daisy.type = "white"
        THEN IF planetTemp > m.optimalTemp
             THEN LET tempDiff == Min(2000, planetTemp - m.optimalTemp)
                  IN  (growthRate * (2000 + tempDiff)) \div 2000
             ELSE IF planetTemp < m.optimalTemp - 1000
             THEN LET tempDiff == Min(2000, m.optimalTemp - 1000 - planetTemp)
                  IN  (growthRate * (4000 - tempDiff)) \div 4000
             ELSE growthRate
        ELSE IF planetTemp < m.optimalTemp
             THEN LET tempDiff == Min(2000, m.optimalTemp - planetTemp)
                  IN  (growthRate * (2000 + tempDiff)) \div 2000
             ELSE IF planetTemp > m.optimalTemp + 1000
             THEN LET tempDiff == Min(2000, planetTemp - (m.optimalTemp + 1000))
                  IN  (growthRate * (4000 - tempDiff)) \div 4000
             ELSE growthRate

\* survivalFactor of updateDaisyPopulation
survivalFactor(m) == Max(900, 1000 - m.deathRate)

\* deaths of updateDaisyPopulation: the death increment taken from the coverage
deaths(m, daisy) == ((1000 - survivalFactor(m)) * daisy.coverage) \div 1000

\* updateDaisyPopulation without the rule that keeps a population from extinction
NewCoverageWithoutFloor(m, daisy) ==
    LET currentCoverage == daisy.coverage
        preferred ==
            PreferenceModifier(m, daisy, calculateDaisyGrowthRate(m, daisy.localTemp))
        growthRate ==
            IF currentCoverage < 200
            THEN (preferred * (1000 + (200 - currentCoverage) * 20)) \div 1000
            ELSE preferred
        availableArea == getBareSoilCoverage(m)
        newGrowth == (((growthRate * currentCoverage) \div 1000) * availableArea) \div 1000
        grown == currentCoverage + newGrowth - deaths(m, daisy)
        maxChangePerStep == 50
    IN  IF grown > currentCoverage + maxChangePerStep
        THEN currentCoverage + maxChangePerStep
        ELSE IF grown < currentCoverage - maxChangePerStep
        THEN currentCoverage - maxChangePerStep
        ELSE grown

\* the new coverage updateDaisyPopulation passes to daisy.setCoverage
NewCoverage(m, daisy) ==
    LET currentCoverage == daisy.coverage
        preferred ==
            PreferenceModifier(m, daisy, calculateDaisyGrowthRate(m, daisy.localTemp))
        growthRate ==
            IF currentCoverage < 200
            THEN (preferred * (1000 + (200 - currentCoverage) * 20)) \div 1000
            ELSE preferred
        availableArea == getBareSoilCoverage(m)
        newGrowth == (((growthRate * currentCoverage) \div 1000) * availableArea) \div 1000
        grown == currentCoverage + newGrowth - deaths(m, daisy)
        maxChangePerStep == 50
        limited ==
            IF grown > currentCoverage + maxChangePerStep
            THEN currentCoverage + maxChangePerStep
            ELSE IF grown < currentCoverage - maxChangePerStep
            THEN currentCoverage - maxChangePerStep
            ELSE grown
    IN  IF currentCoverage > 0 /\ limited < 100 THEN 100 ELSE limited

\* DaisyworldModel.updateDaisyPopulation(this.whiteDaisy)
updateWhiteDaisyPopulation(m) ==
    [m EXCEPT !.whiteDaisy = setCoverage(m.whiteDaisy, NewCoverage(m, m.whiteDaisy))]

\* DaisyworldModel.updateDaisyPopulation(this.blackDaisy)
updateBlackDaisyPopulation(m) ==
    [m EXCEPT !.blackDaisy = setCoverage(m.blackDaisy, NewCoverage(m, m.blackDaisy))]

----------------------------------------------------------------------------
(* class DaisyworldModel: control.  The operators below take and return the  *)
(* record of the fields an operation reads or writes (Self).                *)

\* what the subscribed callback functions do when called
Callbacks == {"log", "pauser"}

\* DaisyworldModel.pause, with cancelAnimationFrame acting on the pending frames
pause(s) ==
    LET stopped == [s EXCEPT !.running = FALSE, !.paused = TRUE]
    IN  IF s.animationFrame # 0
        THEN [stopped EXCEPT !.frames = @ \ {s.animationFrame}, !.animationFrame = 0]
        ELSE stopped

\* timeStepCallbacks.indexOf(callback)
indexOf(callbacks, callback) ==
    IF \E i \in 1..Len(callbacks) : callbacks[i] = callback
    THEN CHOOSE i \in 1..Len(callbacks) :
             /\ callbacks[i] = callback
             /\ \A j \in 1..(i - 1) : callbacks[j] # callback
    ELSE 0

\* timeStepCallbacks.splice(index, 1)
splice(callbacks, index) ==
    [i \in 1..(Len(callbacks) - 1) |->
        IF i < index THEN callbacks[i] ELSE callbacks[i + 1]]

\* the function returned by the handle-th call of onTimeStep, called: it looks up
\* the callback it captured and splices the first match out of the list
unsubscribe(s, handle) ==
    LET index == indexOf(s.timeStepCallbacks, handles[handle])
        removed == IF index # 0
                   THEN [s EXCEPT !.timeStepCallbacks = splice(@, index)]
                   ELSE s
    IN  [removed EXCEPT !.registrations = SelectSeq(@, LAMBDA h : h # handle)]

\* callback(data) for one subscribed callback: a "pauser" calls pause(), an
\* "unsubscriber" calls the unsubscribe function the first onTimeStep call
\* returned, a "thrower" throws, any other callback leaves the engine alone
Invoke(callback, s) ==
    CASE callback = "pauser" -> pause(s)
      [] callback = "unsubscriber" -> IF Len(handles) > 0 THEN unsubscribe(s, 1) ELSE s
      [] callback = "thrower" -> [s EXCEPT !.thrown = TRUE]
      [] OTHER -> s

\* Array.prototype.forEach over this.timeStepCallbacks from index k: the length
\* n is read once, an index the array no longer has is skipped, and an exception
\* thrown by a callback ends the iteration
RECURSIVE forEachCallback(_, _, _, _)
forEachCallback(s, k, n, data) ==
    IF k > n \/ s.thrown THEN s
    ELSE IF k > Len(s.timeStepCallbacks) THEN forEachCallback(s, k + 1, n, data)
    ELSE LET callback == s.timeStepCallbacks[k]
             called == [s EXCEPT !.notified = Append(@, <<callback, data.time>>)]
         IN  forEachCallback(Invoke(callback, called), k + 1, n, data)

\* notifyTimeStep starting at the second callback
notifyTimeStepFromSecond(s, data) == forEachCallback(s, 2, Len(s.timeStepCallbacks), data)

\* DaisyworldModel.notifyTimeStep
notifyTimeStep(s, data) == forEachCallback(s, 1, Len(s.timeStepCallbacks), data)

\* step() without this.time += 1
stepWithoutCount(s) ==
    LET populated == updateBlackDaisyPopulation(updateWhiteDaisyPopulation(s))
        updated ==
            updateLocalTemperatures(updatePlanetTemperature(updatePlanetAlbedo(populated)))
    IN  notifyTimeStep(updated, [time |-> updated.time,
                                 temperature |-> updated.planet.temperature])

\* DaisyworldModel.step
step(s) ==
    LET populated == updateBlackDaisyPopulation(updateWhiteDaisyPopulation(s))
        updated ==
            updateLocalTemperatures(updatePlanetTemperature(updatePlanetAlbedo(populated)))
        timed == [updated EXCEPT !.time = @ + 1]
    IN  notifyTimeStep(timed, [time |-> timed.time,
                               temperature |-> timed.planet.temperature])

\* reset() that copies the new model's empty callback list as well
resetDroppingCallbacks(s, params) ==
    [pause(s) EXCEPT !.time = 0, !.timeStepCallbacks = Constructor(params).timeStepCallbacks]

\* DaisyworldModel.reset
reset(s, params) ==
    LET stopped == pause(s)
        newModel == Constructor(params)
        copied == [stopped EXCEPT !.planet = newModel.planet,
                                  !.whiteDaisy = newModel.whiteDaisy,
                                  !.blackDaisy = newModel.blackDaisy,
                                  !.deathRate = newModel.deathRate,
                                  !.optimalTemp = newModel.optimalTemp,
                                  !.simulationSpeed = newModel.simulationSpeed,
                                  !.running = FALSE,
                                  !.time = 0]
        blended == updatePlanetAlbedo(copied)
        \* params.initialTemp || this.optimalTemp
        initialTemp == IF Param(params.initialTemp, 0) # 0
                       THEN params.initialTemp[1] ELSE blended.optimalTemp
    IN  updateLocalTemperatures(
            [blended EXCEPT !.planet = setTemperature(blended.planet, initialTemp)])

----------------------------------------------------------------------------
(* Inputs *)

NoParams ==
    [solarLuminosity |-> <<>>, bareSoilAlbedo |-> <<>>, initialTemp |-> <<>>,
     whiteDaisyInit |-> <<>>, blackDaisyInit |-> <<>>, whiteDaisyAlbedo |-> <<>>,
     blackDaisyAlbedo |-> <<>>, deathRate |-> <<>>, optimalTemp |-> <<>>,
     simulationSpeed |-> <<>>]

\* params that set the temperatures: initialTemp omitted, 0, below and inside
\* the 250 K to 350 K band, with optimalTemp omitted or given
TemperatureConfigs ==
    {[NoParams EXCEPT !.initialTemp = it, !.optimalTemp = ot] :
        it \in {<<>>, <<0>>, <<10000>>, <<33000>>},
        ot \in {<<>>, <<30000>>}}

\* params that set the initial coverages, inside and outside [0, 1]
CoverageConfigs ==
    {[NoParams EXCEPT !.whiteDaisyInit = wi, !.blackDaisyInit = bi] :
        wi \in {<<>>, <<2500>>},
        bi \in {<<>>, <<-200>>}}

\* params that set the simulation speed: 1.0 and 0.2, inside [0.1, 10], and -3
SpeedConfigs ==
    {[NoParams EXCEPT !.simulationSpeed = sp] : sp \in {<<10>>, <<2>>, <<-30>>}}

\* params with a population below the extinction floor of 0.1
FloorConfigs == {[NoParams EXCEPT !.whiteDaisyInit = <<20>>]}

\* params that set the death rate: -0.5, below [0, 1], and 0
DeathRateConfigs == {[NoParams EXCEPT !.deathRate = dr] : dr \in {<<-500>>, <<0>>}}

\* params that set the albedos inside [0, 1]: white daisies darker than the
\* bare soil that covers most of the planet
AlbedoConfigs ==
    {[NoParams EXCEPT !.whiteDaisyAlbedo = <<0>>, !.bareSoilAlbedo = <<1000>>,
                      !.whiteDaisyInit = <<100>>, !.blackDaisyInit = <<100>>]}

\* the params objects given to the constructor and to reset()
Configs ==
    TemperatureConfigs \cup CoverageConfigs \cup SpeedConfigs \cup FloorConfigs
        \cup DeathRateConfigs \cup AlbedoConfigs

Luminosities == {-50, 160}
Coverages == {-100, 1500}
Speeds == {20, 25}

----------------------------------------------------------------------------
(* State machine *)

Self ==
    [planet |-> planet, whiteDaisy |-> whiteDaisy, blackDaisy |-> blackDaisy,
     deathRate |-> deathRate, optimalTemp |-> optimalTemp,
     simulationSpeed |-> simulationSpeed, running |-> running, time |-> time,
     timeStepCallbacks |-> timeStepCallbacks, animationFrame |-> animationFrame,
     frames |-> frames, notified |-> <<>>, paused |-> paused, ranPaused |-> ranPaused,
     tickSteps |-> 0, registrations |-> registrations, thrown |-> FALSE]

\* the fields of Self after an operation
Becomes(s) ==
    /\ planet' = s.planet
    /\ whiteDaisy' = s.whiteDaisy
    /\ blackDaisy' = s.blackDaisy
    /\ deathRate' = s.deathRate
    /\ optimalTemp' = s.optimalTemp
    /\ simulationSpeed' = s.simulationSpeed
    /\ running' = s.running
    /\ time' = s.time
    /\ timeStepCallbacks' = s.timeStepCallbacks
    /\ animationFrame' = s.animationFrame
    /\ frames' = s.frames
    /\ notified' = s.notified
    /\ paused' = s.paused
    /\ ranPaused' = s.ranPaused
    /\ tickSteps' = s.tickSteps
    /\ registrations' = s.registrations

\* the state after new DaisyworldModel(params)
Constructed(params) ==
    LET m == Constructor(params)
    IN  /\ planet = m.planet
        /\ whiteDaisy = m.whiteDaisy
        /\ blackDaisy = m.blackDaisy
        /\ deathRate = m.deathRate
        /\ optimalTemp = m.optimalTemp
        /\ simulationSpeed = m.simulationSpeed
        /\ running = m.running
        /\ time = m.time
        /\ timeStepCallbacks = m.timeStepCallbacks
        /\ animationFrame = m.animationFrame
        /\ timeouts = 0
        /\ frames = {}
        /\ handles = <<>>
        /\ pc = "idle"
        /\ stepsLeft = 0
        /\ fractionalPart = 0
        /\ lastOp = "new"
        /\ lastConfig = params
        /\ notified = <<>>
        /\ paused = FALSE
        /\ ranPaused = FALSE
        /\ wasReset = FALSE
        /\ ranReset = FALSE
        /\ tickSteps = 0
        /\ registrations = <<>>
        /\ temperatures = <<>>

Init == Constructed(NoParams)

ConfigInit == \E params \in Configs : Constructed(params)

\* a call made by the page's own code, between two callbacks of the event loop
Call(op) ==
    /\ pc = "idle"
    /\ lastOp' = op
    /\ UNCHANGED <<timeouts, pc, stepsLeft, fractionalPart>>

Step ==
    /\ time < MaxTime
    /\ Call("step")
    /\ Becomes(step(Self))
    /\ lastConfig' = NoParams
    /\ UNCHANGED <<handles, temperatures, wasReset, ranReset>>

\* setSolarLuminosity that also recomputes the planet temperature
SetSolarLuminosityRecomputing(luminosity) ==
    /\ Call("setSolarLuminosity")
    /\ Becomes(updatePlanetTemperature(
                   [Self EXCEPT !.planet = PlanetSetSolarLuminosity(@, luminosity)]))
    /\ lastConfig' = NoParams
    /\ UNCHANGED <<handles, temperatures, wasReset, ranReset>>

SetSolarLuminosity(luminosity) ==
    /\ Call("setSolarLuminosity")
    /\ Becomes([Self EXCEPT !.planet = PlanetSetSolarLuminosity(@, luminosity)])
    /\ lastConfig' = NoParams
    /\ UNCHANGED <<handles, temperatures, wasReset, ranReset>>

SetWhiteDaisyCoverage(coverage) ==
    /\ Call("setWhiteDaisyCoverage")
    /\ Becomes(updatePlanetAlbedo(
                   [Self EXCEPT !.whiteDaisy = setCoverage(@, coverage)]))
    /\ lastConfig' = NoParams
    /\ UNCHANGED <<handles, temperatures, wasReset, ranReset>>

SetBlackDaisyCoverage(coverage) ==
    /\ Call("setBlackDaisyCoverage")
    /\ Becomes(updatePlanetAlbedo(
                   [Self EXCEPT !.blackDaisy = setCoverage(@, coverage)]))
    /\ lastConfig' = NoParams
    /\ UNCHANGED <<handles, temperatures, wasReset, ranReset>>

\* DaisyworldModel.setSimulationSpeed: Math.max(0.1, Math.min(10, speed))
SetSimulationSpeed(speed) ==
    /\ Call("setSimulationSpeed")
    /\ Becomes([Self EXCEPT !.simulationSpeed = Max(1, Min(100, speed))])
    /\ lastConfig' = NoParams
    /\ UNCHANGED <<handles, temperatures, wasReset, ranReset>>

Reset(params) ==
    /\ Call("reset")
    /\ Becomes(reset(Self, params))
    /\ lastConfig' = params
    /\ wasReset' = TRUE
    /\ ranReset' = FALSE
    /\ UNCHANGED <<handles, temperatures>>

\* DaisyworldModel.onTimeStep: push the callback, return its unsubscribe function
OnTimeStep(callback) ==
    /\ Len(timeStepCallbacks) < MaxSubs
    /\ Len(handles) < MaxHandles
    /\ Call("onTimeStep")
    /\ Becomes([Self EXCEPT !.timeStepCallbacks = Append(@, callback),
                            !.registrations = Append(@, Len(handles) + 1)])
    /\ handles' = Append(handles, callback)
    /\ lastConfig' = NoParams
    /\ UNCHANGED <<wasReset, ranReset, temperatures>>

\* the function a call of onTimeStep(callback) returned, called
Unsubscribe(handle) ==
    /\ handle \in 1..Len(handles)
    /\ Call("unsubscribe")
    /\ Becomes(unsubscribe(Self, handle))
    /\ lastConfig' = NoParams
    /\ UNCHANGED <<handles, temperatures, wasReset, ranReset>>

----------------------------------------------------------------------------
(* Scheduler: start, pause, simulationLoop and the browser's timers *)

\* the scheduler loops alive: the pending timeouts and animation frames
Loops == timeouts + Cardinality(frames)

\* simulationLoop with Math.ceil in place of Math.floor
EnterLoopRoundingUp ==
    /\ pc' = "loop"
    /\ stepsLeft' = (simulationSpeed + 9) \div 10
    /\ fractionalPart' = simulationSpeed - 10 * (simulationSpeed \div 10)

\* simulationLoop past its running check, reading the given this.simulationSpeed
EnterLoopAt(speed) ==
    /\ pc' = "loop"
    /\ stepsLeft' = speed \div 10
    /\ fractionalPart' = speed - 10 * (speed \div 10)

\* simulationLoop past its running check: stepsPerFrame and fractionalPart are read
EnterLoop == EnterLoopAt(simulationSpeed)

\* start() while paused: running = true, then simulationLoop() runs in the call
StartPaused ==
    /\ pc = "idle"
    /\ ~running
    /\ Loops < MaxLoops
    /\ lastOp' = "start"
    /\ Becomes([Self EXCEPT !.running = TRUE, !.paused = FALSE, !.ranPaused = FALSE])
    /\ EnterLoop
    /\ wasReset' = FALSE
    /\ ranReset' = FALSE
    /\ lastConfig' = NoParams
    /\ UNCHANGED <<timeouts, handles, temperatures>>

\* start() without its running check: simulationLoop() is entered again
StartRunningAgain ==
    /\ pc = "idle"
    /\ running
    /\ Loops < MaxLoops
    /\ lastOp' = "start"
    /\ Becomes(Self)
    /\ EnterLoop
    /\ lastConfig' = NoParams
    /\ UNCHANGED <<timeouts, handles, temperatures, wasReset, ranReset>>

\* start() while running
StartRunning ==
    /\ running
    /\ Call("start")
    /\ Becomes(Self)
    /\ lastConfig' = NoParams
    /\ UNCHANGED <<handles, temperatures, wasReset, ranReset>>

Pause ==
    /\ Call("pause")
    /\ Becomes(pause(Self))
    /\ lastConfig' = NoParams
    /\ UNCHANGED <<handles, temperatures, wasReset, ranReset>>

\* an id requestAnimationFrame has not handed out among the ids still held
FreshFrame ==
    CHOOSE id \in 1..(MaxLoops + 1) :
        /\ id \notin frames \cup {animationFrame}
        /\ \A other \in 1..(id - 1) : other \in frames \cup {animationFrame}

\* the setTimeout callback of simulationLoop:
\* this.animationFrame = requestAnimationFrame(() => this.simulationLoop())
TimeoutFires ==
    /\ pc = "idle"
    /\ timeouts > 0
    /\ timeouts' = timeouts - 1
    /\ lastOp' = "timeout"
    /\ Becomes([Self EXCEPT !.frames = @ \cup {FreshFrame},
                            !.animationFrame = FreshFrame])
    /\ lastConfig' = NoParams
    /\ UNCHANGED <<handles, temperatures, pc, stepsLeft, fractionalPart, wasReset, ranReset>>

\* the requestAnimationFrame callback: simulationLoop() up to its running check
FrameFires(id) ==
    /\ pc = "idle"
    /\ id \in frames
    /\ lastOp' = "frame"
    /\ Becomes([Self EXCEPT !.frames = @ \ {id}])
    /\ IF running THEN EnterLoop ELSE UNCHANGED <<pc, stepsLeft, fractionalPart>>
    /\ lastConfig' = NoParams
    /\ UNCHANGED <<timeouts, handles, temperatures, wasReset, ranReset>>

\* a step() run by simulationLoop, recorded against an earlier pause() or reset()
LoopStepped ==
    /\ time < MaxTime
    /\ Becomes([step(Self) EXCEPT !.ranPaused = @ \/ paused, !.tickSteps = tickSteps + 1])
    /\ ranReset' = (ranReset \/ wasReset)

\* one iteration of the for loop of simulationLoop; an exception a callback
\* throws leaves step() and simulationLoop before setTimeout is reached
LoopStep ==
    /\ pc = "loop"
    /\ stepsLeft > 0
    /\ LoopStepped
    /\ IF step(Self).thrown
       THEN stepsLeft' = 0 /\ pc' = "idle"
       ELSE stepsLeft' = stepsLeft - 1 /\ pc' = pc
    /\ lastOp' = "loopStep"
    /\ lastConfig' = NoParams
    /\ UNCHANGED <<timeouts, handles, temperatures, fractionalPart, wasReset>>

\* the end of simulationLoop: Math.random() < fractionalPart decides one more
\* step(), then setTimeout schedules the next tick unless that step() threw
LoopEnd ==
    /\ pc = "loop"
    /\ stepsLeft = 0
    /\ \/ /\ fractionalPart > 0
          /\ LoopStepped
          /\ lastOp' = "loopExtraStep"
          /\ timeouts' = IF step(Self).thrown THEN timeouts ELSE timeouts + 1
       \/ /\ Becomes([Self EXCEPT !.tickSteps = tickSteps])
          /\ lastOp' = "loopEnd"
          /\ timeouts' = timeouts + 1
          /\ UNCHANGED ranReset
    /\ pc' = "idle"
    /\ lastConfig' = NoParams
    /\ UNCHANGED <<handles, temperatures, stepsLeft, fractionalPart, wasReset>>

----------------------------------------------------------------------------
(* UI controller (src/src/ui.js): the Start, Pause and Step buttons *)

\* the params the page constructs its model with
UiParams ==
    [solarLuminosity |-> <<100>>, bareSoilAlbedo |-> <<500>>, initialTemp |-> <<29500>>,
     whiteDaisyInit |-> <<200>>, blackDaisyInit |-> <<200>>, whiteDaisyAlbedo |-> <<750>>,
     blackDaisyAlbedo |-> <<250>>, deathRate |-> <<300>>, optimalTemp |-> <<29500>>,
     simulationSpeed |-> <<5>>]

\* the values of the sliders of the page as it loads
UiSliders ==
    [simulationSpeed |-> 10, solarLuminosity |-> 100, whiteDaisyCoverage |-> 200,
     blackDaisyCoverage |-> 200, deathRate |-> 300]

\* applyParameterChanges
applyParameterChanges(s) ==
    LET lit == [s EXCEPT !.planet = PlanetSetSolarLuminosity(@, UiSliders.solarLuminosity)]
        sped == [lit EXCEPT !.simulationSpeed = Max(1, Min(100, UiSliders.simulationSpeed))]
        whitened == updatePlanetAlbedo(
            [sped EXCEPT !.whiteDaisy = setCoverage(@, UiSliders.whiteDaisyCoverage)])
        blackened == updatePlanetAlbedo(
            [whitened EXCEPT !.blackDaisy = setCoverage(@, UiSliders.blackDaisyCoverage)])
        params == [NoParams EXCEPT !.solarLuminosity = <<UiSliders.solarLuminosity>>,
                                   !.whiteDaisyInit = <<blackened.whiteDaisy.coverage>>,
                                   !.blackDaisyInit = <<blackened.blackDaisy.coverage>>,
                                   !.deathRate = <<UiSliders.deathRate>>,
                                   !.simulationSpeed = <<UiSliders.simulationSpeed>>]
    IN  IF ~sped.running THEN reset(blackened, params) ELSE sped

UiInit == Constructed(UiParams)

\* startSimulation with the model paused
StartSimulation ==
    /\ pc = "idle"
    /\ ~running
    /\ Loops < MaxLoops
    /\ lastOp' = "startSimulation"
    /\ LET applied == applyParameterChanges(Self)
       IN  /\ Becomes([applied EXCEPT !.running = TRUE, !.paused = FALSE,
                                      !.ranPaused = FALSE])
           /\ EnterLoopAt(applied.simulationSpeed)
    /\ wasReset' = FALSE
    /\ ranReset' = FALSE
    /\ lastConfig' = NoParams
    /\ UNCHANGED <<timeouts, handles, temperatures>>

\* pauseSimulation with the model running
PauseSimulation ==
    /\ running
    /\ Call("pauseSimulation")
    /\ Becomes(pause(Self))
    /\ lastConfig' = NoParams
    /\ UNCHANGED <<handles, temperatures, wasReset, ranReset>>

\* stepSimulation with the model paused
StepSimulation ==
    /\ ~running
    /\ Call("stepSimulation")
    /\ Becomes(step(applyParameterChanges(Self)))
    /\ wasReset' = TRUE
    /\ ranReset' = FALSE
    /\ lastConfig' = NoParams
    /\ UNCHANGED <<handles, temperatures>>

----------------------------------------------------------------------------
(* The luminosity ramp of the regulation test (src/tests/daisyworld.test.js) *)

RampLuminosities == <<100, 120, 140, 160, 180>>
RampSteps == 100

\* model.setSolarLuminosity(lum) at the start of a stage
RampSetLuminosity ==
    /\ Len(temperatures) < Len(RampLuminosities)
    /\ time = RampSteps * Len(temperatures)
    /\ lastOp \in {"new", "push"}
    /\ SetSolarLuminosity(RampLuminosities[Len(temperatures) + 1])

\* model.step() inside a stage
RampStep ==
    /\ lastOp \in {"setSolarLuminosity", "step"}
    /\ time < RampSteps * (Len(temperatures) + 1)
    /\ Call("step")
    /\ Becomes(step(Self))
    /\ lastConfig' = NoParams
    /\ UNCHANGED <<handles, temperatures, wasReset, ranReset>>

\* temperatures.push(model.getPlanetTemperature()) at the end of a stage
RampRecord ==
    /\ lastOp = "step"
    /\ time = RampSteps * (Len(temperatures) + 1)
    /\ Call("push")
    /\ Becomes(Self)
    /\ temperatures' = Append(temperatures, planet.temperature)
    /\ lastConfig' = NoParams
    /\ UNCHANGED <<handles, wasReset, ranReset>>

\* initialTemp * Math.pow(lum, 0.25): the fourth root as the square root of the
\* square root, luminosity in hundredths
noRegulationTemp(initialTemp, lum) ==
    (initialTemp * ISqrt(ISqrt(lum * 1000000) * 10000)) \div 10000

----------------------------------------------------------------------------
(* Specifications *)

\* the engine built with default parameters, under its scheduler
Next ==
    \/ Step
    \/ StartPaused
    \/ StartRunning
    \/ Pause
    \/ Reset(NoParams)
    \/ \E speed \in Speeds : SetSimulationSpeed(speed)
    \/ \E callback \in Callbacks : OnTimeStep(callback)
    \/ \E handle \in 1..Len(handles) : Unsubscribe(handle)
    \/ TimeoutFires
    \/ \E id \in frames : FrameFires(id)
    \/ LoopStep
    \/ LoopEnd

Spec == Init /\ [][Next]_vars

\* the engine built and reset with any parameters, stepped and set by hand
ConfigNext ==
    \/ Step
    \/ \E params \in Configs : Reset(params)
    \/ \E luminosity \in Luminosities : SetSolarLuminosity(luminosity)
    \/ \E coverage \in Coverages : SetWhiteDaisyCoverage(coverage)
    \/ \E coverage \in Coverages : SetBlackDaisyCoverage(coverage)

ConfigSpec == ConfigInit /\ [][ConfigNext]_vars

\* the params whose initial coverages are not negative and sum to at most 1
SimplexConfigs ==
    {params \in Configs :
        /\ Param(params.whiteDaisyInit, 300) >= 0
        /\ Param(params.blackDaisyInit, 300) >= 0
        /\ Param(params.whiteDaisyInit, 300) + Param(params.blackDaisyInit, 300) <= 1000}

SimplexInit == \E params \in SimplexConfigs : Constructed(params)

\* an engine built with coverages inside the simplex, stepped and seeded by hand
SimplexNext ==
    \/ Step
    \/ \E coverage \in Coverages : SetWhiteDaisyCoverage(coverage)
    \/ \E coverage \in Coverages : SetBlackDaisyCoverage(coverage)

SimplexSpec == SimplexInit /\ [][SimplexNext]_vars

\* the callbacks subscribed in DispatchSpec
DispatchCallbacks == {"log", "unsubscriber", "thrower"}

\* an engine that is started and never paused or reset, with subscribers that
\* unsubscribe or throw while a step is being notified
DispatchNext ==
    \/ Step
    \/ \E callback \in DispatchCallbacks : OnTimeStep(callback)
    \/ \E handle \in 1..Len(handles) : Unsubscribe(handle)
    \/ \E speed \in Speeds : SetSimulationSpeed(speed)
    \/ StartPaused
    \/ TimeoutFires
    \/ \E id \in frames : FrameFires(id)
    \/ LoopStep
    \/ LoopEnd

DispatchSpec == Init /\ [][DispatchNext]_vars

\* the page's model under its buttons, its speed slider and its scheduler
UiNext ==
    \/ StartSimulation
    \/ PauseSimulation
    \/ StepSimulation
    \/ \E speed \in Speeds : SetSimulationSpeed(speed)
    \/ TimeoutFires
    \/ \E id \in frames : FrameFires(id)
    \/ LoopStep
    \/ LoopEnd

UiSpec == UiInit /\ [][UiNext]_vars

\* the default engine run over the luminosity ramp
RampNext ==
    \/ RampSetLuminosity
    \/ RampStep
    \/ RampRecord

RampSpec == Init /\ [][RampNext]_vars

----------------------------------------------------------------------------
(* Properties *)

\* the operations that execute step(): the call by hand and the two of simulationLoop
StepOps == {"step", "loopStep", "loopExtraStep"}

\* what the accessors of a model show
Observable(m) ==
    [temperature |-> m.planet.temperature, albedo |-> m.planet.albedo,
     solarLuminosity |-> m.planet.solarLuminosity,
     whiteCoverage |-> m.whiteDaisy.coverage, blackCoverage |-> m.blackDaisy.coverage,
     whiteLocalTemp |-> m.whiteDaisy.localTemp, blackLocalTemp |-> m.blackDaisy.localTemp,
     deathRate |-> m.deathRate, optimalTemp |-> m.optimalTemp,
     simulationSpeed |-> m.simulationSpeed, time |-> m.time, running |-> m.running]

\* C1: in every reachable state the planet temperature lies in [250 K, 350 K]
C1_TemperatureInBand ==
    /\ 25000 <= planet.temperature
    /\ planet.temperature <= 35000

\* C2: once pause() has returned, simulationLoop runs no step() until start()
\* is called again
C2_NoStepAfterPause == paused => ~ranPaused

\* C3: the engine is paused after construction; start() while paused sets
\* running and enters simulationLoop once, without adding a pending tick;
\* start() while running changes nothing, runs no step and begins no loop
C3_StartOnlyWhenPaused ==
    /\ [](lastOp = "new" => ~running /\ pc = "idle" /\ timeouts = 0 /\ frames = {})
    /\ [][lastOp' = "start" =>
            IF running
            THEN /\ UNCHANGED <<planet, whiteDaisy, blackDaisy, deathRate, optimalTemp,
                                simulationSpeed, running, time, timeStepCallbacks,
                                animationFrame, timeouts, frames, pc, stepsLeft,
                                fractionalPart>>
                 /\ notified' = <<>>
            ELSE /\ running'
                 /\ pc = "idle" /\ pc' = "loop"
                 /\ timeouts' = timeouts /\ frames' = frames
                 /\ time' = time
                 /\ notified' = <<>>]_vars

\* C3 witness: start() was called while the engine was running with its tick pending
C3_StartWhileRunning ==
    lastOp = "start" /\ pc = "idle" /\ running /\ timeouts + Cardinality(frames) = 1

\* C4: a step() calls every subscribed callback exactly once, in subscription
\* order, each with a payload whose time is the counter after the increment
C4_EachCallbackOnceInOrder ==
    lastOp \in StepOps =>
        notified = [i \in 1..Len(timeStepCallbacks) |-> <<timeStepCallbacks[i], time>>]

\* C4 witness: a step() with two callbacks subscribed has notified both
C4_TwoCallbacksNotified ==
    lastOp = "step" /\ Len(timeStepCallbacks) = 2 /\ Len(notified) = 2 /\ time = 2

\* C5: right after reset(params) the accessors show what they show for
\* new DaisyworldModel(params)
C5_ResetEqualsConstruction ==
    lastOp = "reset" => Observable(Self) = Observable(Constructor(lastConfig))

\* C6: reset() leaves the engine paused at time 0 with the subscriber list as it
\* was, simulationLoop runs no step() until start() is called again, and a later
\* step() still notifies the callbacks subscribed before the reset
C6_ResetPausesAndKeepsSubscribers ==
    /\ [](wasReset => ~ranReset /\ ~running)
    /\ [](wasReset /\ lastOp = "step" => Len(notified) = Len(timeStepCallbacks))
    /\ [][lastOp' = "reset" =>
            /\ ~running' /\ time' = 0 /\ pc' = "idle"
            /\ timeStepCallbacks' = timeStepCallbacks]_vars

\* C6 witness: the engine was reset while running with subscribers, and the frame
\* that was pending has fired since
C6_FrameFiredAfterReset ==
    wasReset /\ lastOp = "frame" /\ time = 0 /\ timeStepCallbacks # <<>>

\* C7: time is 0 after construction, each step() adds exactly 1, reset() sets it
\* to 0 and no other operation changes it
C7_TimeCounter ==
    /\ [](lastOp = "new" => time = 0)
    /\ [][IF lastOp' \in StepOps THEN time' = time + 1
          ELSE IF lastOp' = "reset" THEN time' = 0
          ELSE time' = time]_vars

\* C7 witness: an unsubscribe call after two steps
C7_UnsubscribedAtTimeTwo == lastOp = "unsubscribe" /\ time = 2

\* C8: each surface's coverage lies in [0, 1] in every reachable state
C8_CoverageInUnitInterval ==
    /\ 0 <= whiteDaisy.coverage /\ whiteDaisy.coverage <= 1000
    /\ 0 <= blackDaisy.coverage /\ blackDaisy.coverage <= 1000

\* C10: the stored planet albedo is the coverage-weighted blend of the three
\* albedos, computed from the current coverages
C10_AlbedoIsBlend == planet.albedo = calculatePlanetAlbedo(Self)

\* C11: with the default albedos, after any step() the white daisies' local
\* temperature is strictly below the planet temperature and the black daisies'
\* strictly above it, also on the 250 K and 350 K bounds
C11_LocalTemperatureOrdering ==
    /\ lastOp \in StepOps
    /\ whiteDaisy.albedo = 750 /\ blackDaisy.albedo = 250 /\ planet.bareSoilAlbedo = 500
    => /\ whiteDaisy.localTemp < planet.temperature
       /\ planet.temperature < blackDaisy.localTemp

\* C13: the simulation speed lies in [0.1, 10] in every reachable state, and a
\* speed inside [0.1, 10] given to the constructor or to reset() is stored unchanged
C13_SpeedInRange ==
    /\ 1 <= simulationSpeed /\ simulationSpeed <= 100
    /\ lastOp \in {"new", "reset"} /\ lastConfig.simulationSpeed # <<>>
       => LET speed == lastConfig.simulationSpeed[1]
          IN  1 <= speed /\ speed <= 100 => simulationSpeed = speed

\* C14: right after reset() with no configuration the solar luminosity is 1.0,
\* the simulation speed is 1 and time is 0
C14_ResetRestoresDefaults ==
    lastOp = "reset" /\ lastConfig = NoParams
    => planet.solarLuminosity = 100 /\ simulationSpeed = 10 /\ time = 0

C17_SettersFrame ==
    [][/\ lastOp' \in {"setWhiteDaisyCoverage", "setBlackDaisyCoverage",
                       "setSolarLuminosity"}
          => UNCHANGED <<deathRate, optimalTemp, simulationSpeed, running, time,
                         timeStepCallbacks, animationFrame, timeouts, frames, pc>>
       /\ lastOp' = "setWhiteDaisyCoverage"
          => /\ blackDaisy' = blackDaisy
             /\ whiteDaisy' = [whiteDaisy EXCEPT !.coverage = whiteDaisy'.coverage]
             /\ planet' = [planet EXCEPT !.albedo = planet'.albedo]
       /\ lastOp' = "setBlackDaisyCoverage"
          => /\ whiteDaisy' = whiteDaisy
             /\ blackDaisy' = [blackDaisy EXCEPT !.coverage = blackDaisy'.coverage]
             /\ planet' = [planet EXCEPT !.albedo = planet'.albedo]
       /\ lastOp' \in {"setWhiteDaisyCoverage", "setBlackDaisyCoverage"}
          => planet'.albedo =
                Max(0, Min(1000, calculatePlanetAlbedo(
                    [planet |-> planet', whiteDaisy |-> whiteDaisy',
                     blackDaisy |-> blackDaisy'])))
       /\ lastOp' = "setSolarLuminosity"
          => /\ whiteDaisy' = whiteDaisy
             /\ blackDaisy' = blackDaisy
             /\ planet' = [planet EXCEPT !.solarLuminosity = planet'.solarLuminosity]]_vars

\* C17 witness: the luminosity was set after a step, leaving a planet temperature
\* that is no longer the one the radiative formula gives
C17_LuminositySetAfterStep ==
    /\ lastOp = "setSolarLuminosity"
    /\ time = 1
    /\ planet.solarLuminosity = 160
    /\ planet.temperature # calculateTemperature(planet)

\* the temperatures, relative to optimalTemp, at which the growth curve is read:
\* far outside, just outside, on the edges of and inside the viable band
GrowthOffsets == {-5000, -2001, -2000, -1000, 0, 2000, 3000, 3001, 5000}

\* C20: the growth rate is never negative, and it is 0 at or below
\* optimalTemp - minGrowthTemp and at or above optimalTemp + maxGrowthTemp
C20_GrowthZeroOutsideBand ==
    \A offset \in GrowthOffsets :
        LET rate == calculateDaisyGrowthRate(Self, optimalTemp + offset)
        IN  /\ rate >= 0
            /\ offset <= 0 - minGrowthTemp \/ offset >= maxGrowthTemp => rate = 0

\* C12: a run of simulationLoop executes floor(simulationSpeed) steps or one
\* more, and exactly simulationSpeed steps when the speed is an integer
C12_StepsPerTick ==
    lastOp \in {"loopEnd", "loopExtraStep"}
    => LET stepsPerFrame == simulationSpeed \div 10
       IN  /\ tickSteps \in {stepsPerFrame, stepsPerFrame + 1}
           /\ simulationSpeed = 10 * stepsPerFrame => tickSteps = stepsPerFrame

\* C12 witness: a tick at speed 2 has ended after its two steps
C12_TickOfTwoSteps ==
    lastOp = "loopEnd" /\ simulationSpeed = 20 /\ tickSteps = 2 /\ time = 2

\* C16: the subscriber list holds exactly the callbacks of the onTimeStep() calls
\* whose own unsubscribe function was never called, in the order of the calls
C16_UnsubscribeRemovesOwnRegistration ==
    timeStepCallbacks = [i \in 1..Len(registrations) |-> handles[registrations[i]]]

\* C18: startSimulation right after pauseSimulation leaves the model's time and
\* coverages as they were when it was paused, and stepSimulation adds exactly 1
\* to the model's time
C18_PauseKeepsStateAndStepAddsOne ==
    [][/\ lastOp = "pauseSimulation" /\ lastOp' = "startSimulation"
          => /\ time' = time
             /\ whiteDaisy'.coverage = whiteDaisy.coverage
             /\ blackDaisy'.coverage = blackDaisy.coverage
       /\ lastOp' = "stepSimulation" => time' = time + 1]_vars

\* C19: over the ramp 1.0, 1.2, 1.4, 1.6, 1.8 with 100 steps per stage, the rise
\* of the planet temperature from the first to the last stage is strictly less
\* than the rise of initialTemp * luminosity^(1/4)
C19_RegulatedRiseBelowUnregulated ==
    Len(temperatures) = Len(RampLuminosities)
    => LET initialTemp == Constructor(NoParams).planet.temperature
           regulatedIncrease == temperatures[Len(temperatures)] - temperatures[1]
           unregulatedIncrease ==
               noRegulationTemp(initialTemp, RampLuminosities[Len(RampLuminosities)])
               - noRegulationTemp(initialTemp, RampLuminosities[1])
       IN  regulatedIncrease < unregulatedIncrease

\* C19 witness: the ramp has run its five stages of 100 steps and the planet is
\* warmer at the end of the last stage than at the end of the first
C19_RampCompleted ==
    /\ Len(temperatures) = Len(RampLuminosities)
    /\ time = RampSteps * Len(RampLuminosities)
    /\ temperatures[Len(temperatures)] > temperatures[1]

\* C21: in a step the new planet temperature is the radiative result clamped into
\* [250 K, 350 K] when that result is within 20 K of the previous temperature and
\* the previous temperature moved by 15 K toward it otherwise, so the planet
\* temperature changes by at most 20 K in a step
C21_TemperatureDamped ==
    [][lastOp' \in StepOps
       => LET temperatureK == RadiativeTemperature(planet')
          IN  /\ planet'.temperature =
                    IF Abs(temperatureK - planet.temperature) <= 2000
                    THEN Max(25000, Min(35000, temperatureK))
                    ELSE IF temperatureK > planet.temperature
                    THEN planet.temperature + 1500
                    ELSE planet.temperature - 1500
              /\ Abs(planet'.temperature - planet.temperature) <= 2000]_vars

\* C22: at most one scheduler loop is alive: the run of simulationLoop that is
\* executing and the timeouts and animation frames that are pending number at
\* most one
C22_AtMostOneLoop == Loops + (IF pc = "loop" THEN 1 ELSE 0) <= 1

\* the solar luminosities at which calculateTemperature is compared: they put the
\* radiative temperature for albedo 0.5 below, just below, just above and above
\* 315 K, which is 20 K over the default 295 K
MonotoneLuminosities == {100, 140, 148, 150, 160}

C25_PositiveStaysAboveFloor ==
    [][lastOp' \in StepOps
       => /\ whiteDaisy.coverage > 0 => whiteDaisy'.coverage >= 100
          /\ blackDaisy.coverage > 0 => blackDaisy'.coverage >= 100]_vars

\* a step has raised a population that started below the floor to the floor
C25_RaisedToFloor ==
    /\ lastOp = "step" /\ time = 1 /\ wasReset = FALSE
    /\ whiteDaisy.coverage = 100 /\ planet.bareSoilAlbedo = 500

\* C26: in a step the coverage of a surface changes by at most 0.05, or the
\* floor rule fired and the new coverage is the floor 0.1
C26_CoverageChangeLimited ==
    [][lastOp' \in StepOps
       => /\ \/ Abs(whiteDaisy'.coverage - whiteDaisy.coverage) <= 50
             \/ whiteDaisy.coverage > 0 /\ whiteDaisy'.coverage = 100
          /\ \/ Abs(blackDaisy'.coverage - blackDaisy.coverage) <= 50
             \/ blackDaisy.coverage > 0 /\ blackDaisy'.coverage = 100]_vars

\* C27: for every configured death rate the death increment a step takes from a
\* surface of coverage c >= 0 is at least 0 and at most (1 - 0.9) * c
C27_DeathIncrementBounded ==
    \A daisy \in {whiteDaisy, blackDaisy} :
        daisy.coverage >= 0
        => /\ 0 <= deaths(Self, daisy)
           /\ deaths(Self, daisy) <= (100 * daisy.coverage) \div 1000

\* C28: the bare-soil coverage is never negative: the white and the black
\* coverage sum to at most 1
C28_BareSoilNotNegative ==
    /\ whiteDaisy.coverage + blackDaisy.coverage <= 1000
    /\ getBareSoilCoverage(Self) >= 0

\* C29: after construction and after every step that leaves the planet inside
\* the band, each stored local temperature lies in [250 K, 350 K] and within
\* 15 K of the planet temperature
C29_LocalTemperatureNearPlanet ==
    /\ lastOp \in StepOps \cup {"new", "reset"}
    /\ planet.temperature \in 25000..35000
    => \A daisy \in {whiteDaisy, blackDaisy} :
           /\ daisy.localTemp \in 25000..35000
           /\ Abs(daisy.localTemp - planet.temperature) <= 1500

\* the number of entries of a sequence that equal a value
Occurrences(seq, value) == Cardinality({i \in 1..Len(seq) : seq[i] = value})

\* the callbacks a step called, in the order of the calls
Invoked == [i \in 1..Len(notified) |-> notified[i][1]]

\* C23: once started and never paused or reset, the engine is never running
\* without a tick pending or executing
C23_RunningHasTick == running => pc = "loop" \/ Loops >= 1

\* C24: when no callback throws, every callback still subscribed after a step
\* was called once for that step, whatever was unsubscribed while the step was
\* being notified: each kind of callback is called at least as often as it is
\* still subscribed and at most as often as it was subscribed before
C24_UnsubscribeSkipsNobody ==
    [][/\ lastOp' \in StepOps
       /\ \A i \in 1..Len(timeStepCallbacks) : timeStepCallbacks[i] # "thrower"
       => \A callback \in DispatchCallbacks :
              /\ Occurrences(timeStepCallbacks', callback) <= Occurrences(Invoked', callback)
              /\ Occurrences(Invoked', callback) <= Occurrences(timeStepCallbacks, callback)]_vars

====
